---------------------------- MODULE Spec2Model ----------------------------
(***************************************************************************)
(* Capacitance-matrix treatment of conducting objects in PINC              *)
(* (src/src/object.c): node classification, the global surface map, the    *)
(* assembly of the per-object capacitance matrices, the per-step charge    *)
(* correction and the collection of impact charge.                         *)
(*                                                                         *)
(* Conventions.  C arrays are functions on 0..n-1.  A double is an exact   *)
(* rational <<n, d>> in lowest terms with d > 0; d = 0 stands for the      *)
(* IEEE values +inf (<<1,0>>), -inf (<<-1,0>>) and NaN (<<0,0>>).  Values   *)
(* of the Object Map are kept in quarter units (val4 = 4 * val), so that   *)
(* the comparisons against x.5 and the (int)(val+0.5) conversion of the    *)
(* code are computed, not assumed.  Every MPI rank holds its own copy of   *)
(* each field of Object: a variable is a function on the ranks.            *)
(***************************************************************************)
EXTENDS Integers, Sequences, FiniteSets, Bags, TLC

\* ------------------------------------------------------------------ bounds
\* Number of MPI ranks (mpiInfo->mpiSize), subdomains side by side along x.
NRanks == 2
\* Largest object tag in the loaded Object Map.
MaxTag == 2

\* ------------------------------------------------------- exact arithmetic
Abs(n) == IF n < 0 THEN -n ELSE n
Sign(n) == IF n < 0 THEN -1 ELSE IF n > 0 THEN 1 ELSE 0

RECURSIVE Gcd(_, _)
Gcd(a, b) == IF b = 0 THEN a ELSE Gcd(b, a % b)

\* a double: n/d in lowest terms, or inf / NaN when d = 0
Norm(n, d) ==
    IF d = 0 THEN <<Sign(n), 0>>
    ELSE LET g == Gcd(Abs(n), Abs(d))
             s == IF d < 0 THEN -1 ELSE 1
         IN  <<(s * n) \div g, (s * d) \div g>>
RInt(n) == <<n, 1>>
RZero == <<0, 1>>
ROne == <<1, 1>>
RAdd(p, q) ==
    IF p[2] = 0 /\ q[2] = 0
    THEN (IF p[1] = q[1] THEN p ELSE <<0, 0>>)
    ELSE Norm(p[1] * q[2] + q[1] * p[2], p[2] * q[2])
RNeg(p) == <<-p[1], p[2]>>
RSub(p, q) == RAdd(p, RNeg(q))
RMul(p, q) == Norm(p[1] * q[1], p[2] * q[2])
\* 1.0 / p
RInv(p) == Norm(p[2], p[1])
IsFinite(p) == p[2] # 0
\* p == q on doubles: a NaN equals nothing, itself included
REq(p, q) == p = q /\ p # <<0, 0>>

\* sum of f[i] over i = lo .. hi-1, added in index order (adSum and the
\* accumulation loops of the code)
RECURSIVE RSum(_, _, _)
RSum(f, lo, hi) == IF hi <= lo THEN RZero ELSE RAdd(RSum(f, lo, hi - 1), f[hi - 1])
RECURSIVE ISum(_, _, _)
ISum(f, lo, hi) == IF hi <= lo THEN 0 ELSE ISum(f, lo, hi - 1) + f[hi - 1]

\* ----------------------------------------------------------------- Grid
\* The Grid struct of a scalar field on a 3D subdomain of trueSize ts
\* (<<nx, ny, nz>>) padded with ng ghost layers on every side: rank 4, the
\* first dimension holding the single field component.
GridOf(ts, ng) ==
    LET tsz == [d \in 0..3 |-> IF d = 0 THEN 1 ELSE ts[d]]
        ngl == [d \in 0..7 |-> IF d % 4 = 0 THEN 0 ELSE ng]
        sz == [d \in 0..3 |-> tsz[d] + ngl[d] + ngl[d + 4]]
    IN  [rank |-> 4,
         trueSize |-> tsz,
         nGhostLayers |-> ngl,
         size |-> sz,
         sizeProd |-> [d \in 0..4 |->
                         IF d = 0 THEN 1
                         ELSE IF d = 1 THEN sz[0]
                         ELSE IF d = 2 THEN sz[0] * sz[1]
                         ELSE IF d = 3 THEN sz[0] * sz[1] * sz[2]
                         ELSE sz[0] * sz[1] * sz[2] * sz[3]]]

\* number of elements of a C array
ALen(arr) == Cardinality(DOMAIN arr)

\* Op(v), with v computed once whatever the number of times Op uses it
With(v, Op(_)) == CHOOSE z \in {Op(x) : x \in {v}} : TRUE

NNodes(g) == g.sizeProd[g.rank]
Nodes(g) == 0 .. NNodes(g) - 1

\* coordinate of a linear index along physical dimension d (1 = x, 2 = y, 3 = z)
Coord(g, node, d) == (node \div g.sizeProd[d]) % g.size[d]

\* (a variant of oGhost that knows the ghost layer on the lower side only)
RECURSIVE oGhostLowerOnly(_, _, _)
oGhostLowerOnly(g, node, d) ==
    IF g.sizeProd[d] = 1
    THEN node < 1
    ELSE \/ node < g.sizeProd[d]
         \/ oGhostLowerOnly(g, node % g.sizeProd[d], d - 1)
\* oGhost: the recursion over the dimensions, d running from rank-1 down to
\* the dimension whose stride is 1.  The nGhostLayers pointers are passed
\* along by the code but never read.
RECURSIVE oGhost(_, _, _)
oGhost(g, node, d) ==
    IF g.sizeProd[d] = 1
    THEN node > g.trueSize[d] \/ node < 1
    ELSE LET help == g.sizeProd[d] * (g.trueSize[d] + 1)
         IN  \/ node < g.sizeProd[d]
             \/ node > help
             \/ oGhost(g, node % g.sizeProd[d], d - 1)

isGhostNode(g, node) == oGhost(g, node, g.rank - 1)

\* ----------------------------------------------------- Object Map values
\* (int)(val + 0.5) for val4 = 4*val: the C conversion truncates toward zero.
IntOfPlusHalf(v4) == IF v4 + 2 >= 0 THEN (v4 + 2) \div 4 ELSE -((-(v4 + 2)) \div 4)
\* val > 0.5
IsObjectVal(v4) == v4 > 2
\* val > a+0.5 && val < a+1.5   (a is the 0-based object index)
HasTag(v4, a) == v4 > 4 * a + 2 /\ v4 < 4 * a + 6
\* round(val): the tag of a node as the data model defines it (values that
\* are exactly halfway between two integers do not occur in the inputs)
Tag(v4) == (v4 + 2) \div 4


\* ------------------------------------------------ domain decomposition
\* True size of the subdomains of the capacitance runs: NXTrue nodes along x,
\* one along y and z.
NXTrue == 2
\* Ghost layers on every side of every physical dimension (grid:nGhostLayers).
NGhost == 1

VARIABLES
    mpiSize,                \* mpiInfo->mpiSize
    grid,                   \* the Grid geometry shared by all scalar grids
    domain,                 \* obj->domain->val of every rank, quarter units
    pc,                     \* where oMode stands
    nObjects,               \* obj->nObjects                  (per rank)
    lookupInterior,         \* obj->lookupInterior            (per rank)
    lookupInteriorOffset,   \* obj->lookupInteriorOffset      (per rank)
    lookupSurface,          \* obj->lookupSurface             (per rank)
    lookupSurfaceOffset,    \* obj->lookupSurfaceOffset       (per rank)
    capMatrixAllOffsets,    \* obj->capMatrixAllOffsets = nodCorGlob (per rank)
    capMatrixAllSize,       \* return value of oGatherSurfaceNodes (per rank)
    capMatrixAll,           \* obj->capMatrixAll and the memory behind it (per rank)
    capMatrixSum,           \* obj->capMatrixSum               (per rank)
    capA, capI, capJ, capInode,  \* a, i, j, inode of oComputeCapacitanceMatrix
    rhoCap, phiCap,         \* the assembly grids                (per rank)
    capMatrix,              \* the capMatrix buffer of object a   (per rank)
    invCapMatrix,           \* the invCapMatrix computed for each object (per rank)
    ub,                     \* undefined behaviour met so far ("none" if none)
    nTimeSteps,             \* time:nTimeSteps
    nStep,                  \* n of oMode: the time step being computed
    pop,                    \* the Population                 (per rank)
    rhoObj, rho, phi,       \* the grids of the time loop      (per rank)
    invNrSurfNod,           \* obj->invNrSurfNod              (per rank)
    applyA,                 \* a of oApplyCapacitanceMatrix
    capMatrixPhiSum,        \* capMatrixPhiSum of every object, last call (per rank)
    deltaPhi, rhoCorr,      \* obj->deltaPhi, obj->rhoCorr    (per rank)
    collectives,            \* the MPI collectives issued since oAlloc began
                            \* or, later, since the last call of
                            \* oCollectObjectCharge began        (per rank)
    capSolves               \* the calls of solve oComputeCapacitanceMatrix has
                            \* made, as pairs <<a, i>>            (per rank)

Ranks == 0 .. mpiSize - 1

\* The cell of the global (periodic) grid that local node `node` of rank r
\* stands for: its own node when it is a true node, the node of the
\* neighbouring subdomain (wrapping around) when it is a ghost node.
GlobalCell(P, g, r, node) ==
    LET nx == g.trueSize[1]
        ny == g.trueSize[2]
        nz == g.trueSize[3]
    IN  << (r * nx + Coord(g, node, 1) - g.nGhostLayers[1]) % (P * nx),
           (Coord(g, node, 2) - g.nGhostLayers[2]) % ny,
           (Coord(g, node, 3) - g.nGhostLayers[3]) % nz >>

GlobalCells(P, g) ==
    (0 .. P * g.trueSize[1] - 1) \X (0 .. g.trueSize[2] - 1) \X (0 .. g.trueSize[3] - 1)

\* oReadH5 followed by gHaloOp(setSlice, TOHALO): every rank holds the part
\* of the Object dataset that covers its subdomain, and its ghost layers are
\* copies of the neighbours' true nodes.
LoadDomain(P, g, field) ==
    [r \in 0 .. P - 1 |-> [n \in Nodes(g) |-> field[GlobalCell(P, g, r, n)]]]

\* The Object datasets of the runs: integer tags 0..MaxTag stored as reals,
\* all off by the same rounding noise of -1/4, 0 or +1/4.
\* FieldsOver: the datasets whose cells outside C are plasma.
FieldsOver(P, g, C) ==
    { [c \in GlobalCells(P, g) |-> 4 * (IF c \in C THEN t[c] ELSE 0) + e] :
        t \in [C -> 0 .. MaxTag], e \in {-1, 0, 1} }

Fields(P, g) == FieldsOver(P, g, GlobalCells(P, g))

\* --------------------------------------------------- oAlloc: nObjects
\* The scan of oAlloc: nObjects = (int)(val+0.5) whenever val > nObjects.
\* The assignment never lowers nObjects (val > nObjects gives
\* (int)(val+0.5) >= nObjects) and is skipped only when (int)(val+0.5) is
\* not above it, so the scan ends with the largest (int)(val+0.5), or 0.
LocalNObjects(g, val) ==
    LET S == {IntOfPlusHalf(val[i]) : i \in Nodes(g)} \cup {0}
    IN  CHOOSE m \in S : \A x \in S : x <= m

RECURSIVE MaxOver(_, _)
MaxOver(f, S) ==
    IF S = {} THEN 0
    ELSE LET x == CHOOSE y \in S : TRUE
             m == MaxOver(f, S \ {x})
         IN  IF f[x] > m THEN f[x] ELSE m

\* MPI_Allreduce(MPI_IN_PLACE, &nObjects, 1, MPI_INT, MPI_MAX)
AllreduceMax(f) == [r \in DOMAIN f |-> MaxOver(f, DOMAIN f)]

\* ------------------------------------------------------------ alCumSum
\* alCumSum(cnt+1, cnt, n) as the code calls it, in place: cnt[0] = 0 and
\* result[k] = cnt[1] + ... + cnt[k].
alCumSum(cnt, n) == [k \in 0 .. n |-> ISum(cnt, 1, k + 1)]

\* ---------------------------------------------------- oFillLookupTables
\* (a variant of the first pass, with the test `&& !isGhostNode(domain, i)`)
InteriorCountNoGhost(g, val, nObj) ==
    [k \in 0 .. nObj |->
        Cardinality({i \in Nodes(g) : IsObjectVal(val[i]) /\ ~isGhostNode(g, i)
                                        /\ IntOfPlusHalf(val[i]) = k})]

\* first pass: lookupInteriorOffset[(int)(val+0.5)]++ for every val > 0.5
InteriorCount(g, val, nObj) ==
    [k \in 0 .. nObj |->
        Cardinality({i \in Nodes(g) : IsObjectVal(val[i]) /\ IntOfPlusHalf(val[i]) = k})]

\* A fill pass `for (b = 0; b < n; b++) if (test(b)) { tab[index] = b;
\* index++; }`, S being the nodes that pass the test: the nodes it has
\* written when the loop variable stands at b, in the order of writing.
\* (the scan from lo up to hi - 1 is the scan of its lower half followed by
\* the scan of its upper half)
RECURSIVE ScanRange(_, _, _)
ScanRange(S, lo, hi) ==
    IF hi <= lo THEN << >>
    ELSE IF hi = lo + 1 THEN (IF lo \in S THEN <<lo>> ELSE << >>)
    ELSE LET mid == (lo + hi) \div 2
         IN  ScanRange(S, lo, mid) \o ScanRange(S, mid, hi)

ScanList(S, b) == ScanRange(S, 0, b)

\* the block of the offset table `off` in which position idx lies
BlockOf(off, nObj, idx) == CHOOSE t \in 0 .. nObj - 1 : off[t] <= idx /\ idx < off[t + 1]

\* second pass: lookupInterior[index[t-1]] = i; index[t-1]++ with
\* t = (int)(val[i]+0.5), index[] starting at the offsets
InteriorFill(g, val, nObj, off) ==
    With([t \in 0 .. nObj - 1 |->
             ScanList({i \in Nodes(g) : IsObjectVal(val[i])
                                         /\ IntOfPlusHalf(val[i]) - 1 = t},
                      NNodes(g))],
         LAMBDA written :
             [idx \in 0 .. off[nObj] - 1 |->
                 LET t == BlockOf(off, nObj, idx)
                 IN  written[t][idx - off[t] + 1]])

oFillLookupTables(g, val, nObj) ==
    With(alCumSum(InteriorCount(g, val, nObj), nObj),
         LAMBDA off : [lookupInterior |-> InteriorFill(g, val, nObj, off),
                       lookupInteriorOffset |-> off])

\* ---------------------------------------------- oFindObjectSurfaceNodes
\* myNB[1..8]: the node itself and its seven lower neighbours
myNB(g, b) ==
    LET sp == g.sizeProd
    IN  << b,
           b - sp[3],
           b - sp[1],
           b - sp[1] - sp[3],
           b - sp[2],
           b - sp[2] - sp[3],
           b - sp[2] - sp[1],
           b - sp[2] - sp[1] - sp[3] >>

\* d: how many of the eight sampled values carry the tag of object a
SurfD(g, val, a, b) ==
    Cardinality({k \in 1 .. 8 : HasTag(val[myNB(g, b)[k]], a)})

\* (a variant of the test, without d<7.5)
OnSurfaceOrInside(g, val, a, b) == ~isGhostNode(g, b) /\ SurfD(g, val, a, b) > 0

\* the test both passes apply to node b: if (d<7.5 && d>0)
OnSurface(g, val, a, b) ==
    /\ ~isGhostNode(g, b)
    /\ LET d == SurfD(g, val, a, b) IN d < 8 /\ d > 0

\* first pass: lookupSurfaceOffset[a+1]++ for every node that passes
SurfaceCount(g, val, nObj) ==
    [k \in 0 .. nObj |->
        IF k = 0 THEN 0
        ELSE Cardinality({b \in Nodes(g) : OnSurface(g, val, k - 1, b)})]

\* second pass, for every object a: lookupSurface[index[a]] = b; index[a]++
\* for every node b that passes, index[a] starting at lookupSurfaceOffset[a]
SurfaceFill(g, val, nObj, off) ==
    With([a \in 0 .. nObj - 1 |->
             ScanList({b \in Nodes(g) : OnSurface(g, val, a, b)}, NNodes(g))],
         LAMBDA written :
             [idx \in 0 .. off[nObj] - 1 |->
                 LET a == BlockOf(off, nObj, idx)
                 IN  written[a][idx - off[a] + 1]])

oFindObjectSurfaceNodes(g, val, nObj) ==
    With(alCumSum(SurfaceCount(g, val, nObj), nObj),
         LAMBDA off : [lookupSurface |-> SurfaceFill(g, val, nObj, off),
                       lookupSurfaceOffset |-> off])

\* -------------------------------------------------- oGatherSurfaceNodes
\* MPI_Allgather of nodesThisCore, the shift by one, nodCorLoc[0] = 0 and
\* the cumulative sum: nodCorLoc[b] = number of surface nodes of object a
\* on the ranks below b.
\* (variant: the all-gathered counts shifted by one, but not summed up)
nodCorLocNoCumSum(P, surfOff, a) ==
    [b \in 0 .. P |-> IF b = 0 THEN 0 ELSE surfOff[b - 1][a + 1] - surfOff[b - 1][a]]

nodCorLoc(P, surfOff, a) ==
    LET gathered == [r \in 0 .. P - 1 |-> surfOff[r][a + 1] - surfOff[r][a]]
        shifted == [b \in 0 .. P |-> IF b = 0 THEN 0 ELSE gathered[b - 1]]
    IN  alCumSum(shifted, P)

\* nodCorGlob[a*(size+1)+b] = nodCorLoc[b], and the returned capMatrixAllSize
oGatherSurfaceNodes(P, nObj, surfOff) ==
    LET glob == [k \in 0 .. nObj * (P + 1) - 1 |->
                    nodCorLoc(P, surfOff, k \div (P + 1))[k % (P + 1)]]
    IN  [nodCorGlob |-> glob,
         capMatrixAllSize |-> ISum([a \in 0 .. nObj - 1 |-> glob[a * (P + 1) + P]], 0, nObj)]


\* --------------------------------------------------------------- oAlloc
varsAlloc == <<nObjects, lookupInterior, lookupInteriorOffset, lookupSurface,
               lookupSurfaceOffset, capMatrixAllOffsets, capMatrixAllSize>>

\* oAlloc on every rank: count the objects (all-reduce MAX), build the
\* Interior and Surface lookups and gather the global surface map.  (Here
\* and below a value that several conjuncts use is bound by \E over a
\* one-element set, which makes TLC compute it once.)
oAllocTables ==
    \E nObj \in {AllreduceMax([r \in Ranks |-> LocalNObjects(grid, domain[r])])} :
    \E int \in {[r \in Ranks |-> oFillLookupTables(grid, domain[r], nObj[r])]} :
    \E srf \in {[r \in Ranks |-> oFindObjectSurfaceNodes(grid, domain[r], nObj[r])]} :
    \E off \in {[r \in Ranks |-> srf[r].lookupSurfaceOffset]} :
    \E gat \in {[r \in Ranks |-> oGatherSurfaceNodes(mpiSize, nObj[r], off)]} :
        /\ nObjects' = nObj
        /\ lookupInterior' = [r \in Ranks |-> int[r].lookupInterior]
        /\ lookupInteriorOffset' = [r \in Ranks |-> int[r].lookupInteriorOffset]
        /\ lookupSurface' = [r \in Ranks |-> srf[r].lookupSurface]
        /\ lookupSurfaceOffset' = off
        /\ capMatrixAllOffsets' = [r \in Ranks |-> gat[r].nodCorGlob]
        /\ capMatrixAllSize' = [r \in Ranks |-> gat[r].capMatrixAllSize]


\* ------------------------------------------------------- Poisson solver
\* The solver is an external collaborator.  It is taken to be linear and
\* translation invariant on the periodic global grid: a unit charge at cell
\* c raises the potential at cell c2 by 2^(Dmax - dist(c, c2)), dist being
\* the sum over the axes of the circular distances.
CircDist(x, y, L) == LET d == (x - y) % L IN IF d <= L - d THEN d ELSE L - d

RECURSIVE Pow2(_)
Pow2(e) == IF e <= 0 THEN 1 ELSE 2 * Pow2(e - 1)

Extent(P, g) == <<P * g.trueSize[1], g.trueSize[2], g.trueSize[3]>>

Kern(P, g, c, c2) ==
    LET L == Extent(P, g)
        dmax == (L[1] \div 2) + (L[2] \div 2) + (L[3] \div 2)
        dist == CircDist(c[1], c2[1], L[1]) + CircDist(c[2], c2[2], L[2])
                + CircDist(c[3], c2[3], L[3])
    IN  Pow2(dmax - dist)

\* the rank that owns global cell c and the local index of its true node
OwnerOf(g, c) == c[1] \div g.trueSize[1]
LocalOf(g, c) ==
    ((c[1] % g.trueSize[1]) + g.nGhostLayers[1]) * g.sizeProd[1]
    + (c[2] + g.nGhostLayers[2]) * g.sizeProd[2]
    + (c[3] + g.nGhostLayers[3]) * g.sizeProd[3]

RECURSIVE RSumSet(_, _)
RSumSet(f, S) ==
    IF S = {} THEN RZero
    ELSE LET x == CHOOSE y \in S : TRUE IN RAdd(f[x], RSumSet(f, S \ {x}))

\* solve(solver, rho, phi, mpiInfo): phi on every node of every rank (a ghost
\* node holds the value of the true node it stands for)
Solve(P, g, rhoIn) ==
    With([c \in GlobalCells(P, g) |-> rhoIn[OwnerOf(g, c)][LocalOf(g, c)]],
         LAMBDA rhoGlob :
             With([c \in GlobalCells(P, g) |->
                      LET charged == {c2 \in GlobalCells(P, g) : rhoGlob[c2] # RZero}
                      IN  RSumSet([c2 \in charged |->
                                      RMul(RInt(Kern(P, g, c, c2)), rhoGlob[c2])],
                                  charged)],
                  LAMBDA phiGlob :
                      [r \in 0 .. P - 1 |->
                          [node \in Nodes(g) |-> phiGlob[GlobalCell(P, g, r, node)]]]))

gZero(g) == [n \in Nodes(g) |-> RZero]

\* ------------------------------------------------- dense linear algebra
\* a matrix is a row-major array on 0 .. n*n-1, as in the code
Remove(seq, k) == SubSeq(seq, 1, k - 1) \o SubSeq(seq, k + 1, Len(seq))

RECURSIVE DetSub(_, _, _, _)
DetSub(M, n, rows, cols) ==
    IF rows = <<>> THEN ROne
    ELSE RSum([k \in 0 .. Len(cols) - 1 |->
                 LET e == M[n * rows[1] + cols[k + 1]]
                     m == IF e = RZero THEN RZero
                          ELSE RMul(e, DetSub(M, n, Tail(rows), Remove(cols, k + 1)))
                 IN  IF k % 2 = 0 THEN m ELSE RNeg(m)],
              0, Len(cols))

Det(M, n) == DetSub(M, n, [k \in 1 .. n |-> k - 1], [k \in 1 .. n |-> k - 1])

\* gsl_linalg_LU_decomp and gsl_linalg_LU_invert in exact arithmetic: the
\* inverse of a non-singular matrix, entry (j, i) = cofactor(i, j) / det.
LUInvert(M, n) ==
    With(RInv(Det(M, n)),
         LAMBDA invDet :
             [l \in 0 .. n * n - 1 |->
                 LET all == [k \in 1 .. n |-> k - 1]
                     j == l \div n
                     i == l % n
                 IN  With(DetSub(M, n, Remove(all, i + 1), Remove(all, j + 1)),
                          LAMBDA c : RMul(IF (i + j) % 2 = 0 THEN c ELSE RNeg(c), invDet))])

\* memory that was allocated (or lies behind an allocation) and never written
Uninit == <<0, -1>>


\* --------------------------------------------- oComputeCapacitanceMatrix
varsDomain == <<mpiSize, grid, domain>>
varsCapLoop == <<capA, capI, capJ, capInode, rhoCap, phiCap, capMatrix>>
varsCapStore == <<capMatrixAll, capMatrixSum, invCapMatrix>>
varsPop == <<pop, invNrSurfNod, rhoObj>>
varsField == <<rho, phi, applyA, capMatrixPhiSum, deltaPhi, rhoCorr>>
varsLoop == <<nTimeSteps, nStep, varsPop, varsField>>

\* totSNGlob, beginIndex and endIndex of object a as rank r reads them
TotSNGlob(r, a) == capMatrixAllOffsets[r][a * (mpiSize + 1) + mpiSize]
BeginIndex(r, a) == capMatrixAllOffsets[r][a * (mpiSize + 1) + r]
EndIndex(r, a) == capMatrixAllOffsets[r][a * (mpiSize + 1) + r + 1]

\* while ((nodCorGlob[a*(size+1)+j+1]-nodCorGlob[a*(size+1)+j])==0) j++;
\* a read at or past the end of nodCorGlob is reported instead of made
RECURSIVE SkipEmptyRanks(_, _, _)
SkipEmptyRanks(glob, base, j) ==
    IF base + j + 1 \notin DOMAIN glob
    THEN [j |-> j, oob |-> TRUE]
    ELSE IF glob[base + j + 1] - glob[base + j] = 0
         THEN SkipEmptyRanks(glob, base, j + 1)
         ELSE [j |-> j, oob |-> FALSE]

\* (a variant of the cursor loop that moves to the next rank without
\* setting inode back to 0)
RECURSIVE AdvanceCursorNoReset(_, _, _, _)
AdvanceCursorNoReset(glob, base, j, inode) ==
    IF base + j + 1 \notin DOMAIN glob
    THEN [j |-> j, inode |-> inode, oob |-> TRUE]
    ELSE IF inode > glob[base + j + 1] - glob[base + j] - 1
         THEN AdvanceCursorNoReset(glob, base, j + 1, inode)
         ELSE [j |-> j, inode |-> inode, oob |-> FALSE]

\* while (inode>(nodCorGlob[a*(size+1)+j+1]-nodCorGlob[a*(size+1)+j]-1))
\*     { j++; inode=0; }
\* the array is flat: past row a the reads fall into the row of object a+1,
\* and past the last row they leave the array
RECURSIVE AdvanceCursor(_, _, _, _)
AdvanceCursor(glob, base, j, inode) ==
    IF base + j + 1 \notin DOMAIN glob
    THEN [j |-> j, inode |-> inode, oob |-> TRUE]
    ELSE IF inode > glob[base + j + 1] - glob[base + j] - 1
         THEN AdvanceCursor(glob, base, j + 1, 0)
         ELSE [j |-> j, inode |-> inode, oob |-> FALSE]

\* the node on which the unit charge of iteration (a, inode) is placed ...
ChargeNode(r, a, inode) == lookupSurface[r][lookupSurfaceOffset[r][a] + inode]
\* ... and the node that is set back to zero after the solve
ResetNode(r, a, inode) == lookupSurface[r][inode]

\* (a variant of the column loop that stops one column short)
InColumnLoopOneShort(i, totSNGlob) == i < totSNGlob - 1

\* for (long int i=0; i<totSNGlob; i++): the test of the column loop
InColumnLoop(i, totSNGlob) == i < totSNGlob

\* for (a ...) { j = 0; inode = 0; totSNGlob ...; capMatrix zeroed
CapObject ==
    /\ pc = "capObject"
    /\ capA < nObjects[0]
    /\ capI' = 0
    /\ capJ' = 0
    /\ capInode' = 0
    /\ capMatrix' = [r \in Ranks |->
                       [l \in 0 .. TotSNGlob(r, capA) * TotSNGlob(r, capA) - 1 |-> RZero]]
    /\ pc' = IF InColumnLoop(0, TotSNGlob(0, capA)) THEN "capSet" ELSE "capInvert"
    /\ UNCHANGED <<varsDomain, collectives, capSolves, varsAlloc, varsCapStore, capA, rhoCap, phiCap, ub, varsLoop>>

\* skip the ranks without surface nodes, then: if (rank==j) rhoCap = 1
CapSetCharge ==
    /\ pc = "capSet"
    /\ \E sk \in {SkipEmptyRanks(capMatrixAllOffsets[0], capA * (mpiSize + 1), capJ)} :
           /\ capJ' = sk.j
           /\ rhoCap' = [r \in Ranks |->
                           IF r = sk.j
                           THEN [rhoCap[r] EXCEPT ![ChargeNode(r, capA, capInode)] = ROne]
                           ELSE rhoCap[r]]
           /\ ub' = IF sk.oob THEN "nodCorGlob read past its end" ELSE ub
    /\ pc' = "capSolve"
    /\ UNCHANGED <<varsDomain, collectives, capSolves, varsAlloc, varsCapStore, capA, capI, capInode,
                   phiCap, capMatrix, varsLoop>>

\* solve(solver, rhoCap, phiCap, mpiInfo)
CapSolve ==
    /\ pc = "capSolve"
    /\ phiCap' = Solve(mpiSize, grid, rhoCap)
    /\ capSolves' = [r \in Ranks |->
                       IF InColumnLoop(capI, TotSNGlob(r, capA))
                       THEN Append(capSolves[r], <<capA, capI>>)
                       ELSE capSolves[r]]
    /\ pc' = "capFill"
    /\ UNCHANGED <<varsDomain, collectives, varsAlloc, varsCapStore, capA, capI, capJ, capInode,
                   rhoCap, capMatrix, ub, varsLoop>>

\* the collective of the pass for an object: the all-reduce of capMatrix
CapCollectives(T) ==
    << [by |-> "oComputeCapacitanceMatrix", kind |-> "MPI_Allreduce", buf |-> "capMatrix",
        count |-> T * T, type |-> "MPI_DOUBLE", op |-> "MPI_SUM"] >>

\* set the charge back to zero, fill column i, advance the cursor.  On a
\* rank the cursor loop that runs off nodCorGlob either ends on what it
\* reads there or the process dies; the ranks have their own memory, so
\* some may die while the others go on to the all-reduce of capMatrix.
CapFill ==
    /\ pc = "capFill"
    /\ rhoCap' = [r \in Ranks |->
                    IF r = capJ
                    THEN [rhoCap[r] EXCEPT ![ResetNode(r, capA, capInode)] = RZero]
                    ELSE rhoCap[r]]
    /\ capMatrix' = [r \in Ranks |->
          [l \in DOMAIN capMatrix[r] |->
              LET k == l \div TotSNGlob(r, capA)
                  i == l % TotSNGlob(r, capA)
              IN  IF i = capI /\ k >= BeginIndex(r, capA) /\ k < EndIndex(r, capA)
                  THEN phiCap[r][lookupSurface[r][lookupSurfaceOffset[r][capA]
                                                   + k - BeginIndex(r, capA)]]
                  ELSE capMatrix[r][l]]]
    /\ \E adv \in {AdvanceCursor(capMatrixAllOffsets[0], capA * (mpiSize + 1),
                                  capJ, capInode + 1)} :
           /\ capJ' = adv.j
           /\ capInode' = adv.inode
           /\ ub' = IF adv.oob THEN "nodCorGlob read past its end" ELSE ub
           /\ \/ /\ pc' = IF InColumnLoop(capI + 1, TotSNGlob(0, capA))
                          THEN "capSet" ELSE "capInvert"
                 /\ collectives' = collectives
              \/ /\ adv.oob
                 /\ pc' = "crashed"
                 /\ \E died \in SUBSET Ranks \ {{}} :
                       collectives' = [r \in Ranks |->
                           IF r \in died \/ InColumnLoop(capI + 1, TotSNGlob(r, capA))
                           THEN collectives[r]
                           ELSE collectives[r] \o CapCollectives(TotSNGlob(r, capA))]
    /\ capI' = capI + 1
    /\ UNCHANGED <<varsDomain, capSolves, varsAlloc, varsCapStore, capA, phiCap, varsLoop>>

\* MPI_Allreduce(MPI_IN_PLACE, capMatrix, totSNGlob*totSNGlob, MPI_SUM)
AllreduceSum(bufs, n) ==
    [l \in 0 .. n - 1 |-> RSum([r \in DOMAIN bufs |-> bufs[r][l]], 0, ALen(bufs))]

\* arr with blk[0..n-1] written at start, start+1, ...: a write past the end
\* of arr lands in the memory behind it
WriteBlock(arr, start, blk, n) ==
    LET top == IF start + n > ALen(arr) THEN start + n ELSE ALen(arr)
    IN  [k \in 0 .. top - 1 |->
            IF k >= start /\ k < start + n THEN blk[k - start]
            ELSE IF k < ALen(arr) THEN arr[k] ELSE Uninit]

\* where oComputeCapacitanceMatrix puts, and oApplyCapacitanceMatrix reads,
\* entry l of the matrix of object a
CapMatrixAllIndex(a, totSNGlob, l) == a * totSNGlob * totSNGlob + l


\* (a variant in which gsl lets an empty matrix through)
gslRefusesSingular(M, T) == T >= 1 /\ Det(M, T) = RZero

\* gsl_permutation_alloc(totSNGlob) refuses the length 0 and
\* gsl_linalg_LU_invert a singular matrix: the gsl error handler is called
gslRefuses(M, T) == T < 1 \/ Det(M, T) = RZero

\* all-reduce capMatrix, invert it, copy the inverse into capMatrixAll and
\* store 1 / (sum of its elements).  gsl refuses an empty matrix and a
\* singular one: its error handler aborts the program.
CapInvert ==
    /\ pc = "capInvert"
    /\ collectives' = [r \in Ranks |->
                         collectives[r] \o CapCollectives(TotSNGlob(r, capA))]
    /\ \E T \in {TotSNGlob(0, capA)} :
       \E M \in {AllreduceSum(capMatrix, T * T)} :
           IF gslRefuses(M, T)
           THEN /\ pc' = "aborted"
                /\ capMatrix' = [r \in Ranks |-> M]
                /\ UNCHANGED <<varsCapStore, capA, ub>>
           ELSE \E inv \in {LUInvert(M, T)} :
                \E past \in {CapMatrixAllIndex(capA, T, T * T) > ALen(capMatrixAll[0])} :
                    /\ capMatrix' = [r \in Ranks |-> M]
                    /\ capMatrixAll' = [r \in Ranks |->
                          WriteBlock(capMatrixAll[r], CapMatrixAllIndex(capA, T, 0),
                                     inv, T * T)]
                    /\ capMatrixSum' = [r \in Ranks |->
                          [capMatrixSum[r] EXCEPT ![capA] = RInv(RSum(inv, 0, T * T))]]
                    /\ invCapMatrix' = [r \in Ranks |->
                          [invCapMatrix[r] EXCEPT ![capA] = inv]]
                    /\ capA' = capA + 1
                    /\ ub' = IF past THEN "capMatrixAll written past its end" ELSE ub
                    /\ \/ pc' = "capObject"
                       \/ past /\ pc' = "crashed"
    /\ UNCHANGED <<varsDomain, capSolves, varsAlloc, capI, capJ, capInode, rhoCap, phiCap,
                   varsLoop>>

\* the loop over the objects is over: gFree(rhoCap); gFree(phiCap); ...
CapDone ==
    /\ pc = "capObject"
    /\ capA >= nObjects[0]
    /\ pc' = "capDone"
    /\ UNCHANGED <<varsDomain, collectives, capSolves, varsAlloc, varsCapLoop, varsCapStore, ub, varsLoop>>

\* ----------------------------------------------------------- Population
\* Most particles of one specie a rank holds, and most particles in the run.
MaxPart == 2

\* the species of oMode (it reads iStop[0] and iStop[1]); pop->charge
Species == 0 .. 1
charge == [s \in Species |-> IF s = 0 THEN RInt(-1) ELSE RInt(2)]

\* Positions and velocities are kept in half units of the cell size, in the
\* local frame of the rank (ghost layers included): pos[i*nDims + d] is
\* pos[i][d + 1] here.  Specie s owns the slots from iStart[s] on.
NSlots == MaxPart * Cardinality(Species)
FreeSlot == <<0, 0, 0>>

\* (int) pos[d] for a non-negative position in half units
IntPart(x2) == x2 \div 2

\* long int p = j + k*sizeProd[2] + l*sizeProd[3];
CellIndex(g, pos) ==
    IntPart(pos[1]) + IntPart(pos[2]) * g.sizeProd[2] + IntPart(pos[3]) * g.sizeProd[3]

\* the centres of the cells whose lower corner is a true node
CellCentres(g) ==
    { <<2 * x + 1, 2 * y + 1, 2 * z + 1>> :
        x \in g.nGhostLayers[1] .. g.nGhostLayers[1] + g.trueSize[1] - 1,
        y \in g.nGhostLayers[2] .. g.nGhostLayers[2] + g.trueSize[2] - 1,
        z \in g.nGhostLayers[3] .. g.nGhostLayers[3] + g.trueSize[3] - 1 }

\* the Population of a rank that holds the particles lists[s] of specie s,
\* electrons drifting down x and ions up x
PopOf(lists) ==
    [pos |-> [i \in 0 .. NSlots - 1 |->
                 LET s == i \div MaxPart
                     k == i % MaxPart
                 IN  IF k < Len(lists[s]) THEN lists[s][k + 1] ELSE FreeSlot],
     vel |-> [i \in 0 .. NSlots - 1 |->
                 LET s == i \div MaxPart
                     k == i % MaxPart
                 IN  IF k < Len(lists[s])
                     THEN <<IF s = 0 THEN -1 ELSE 1, 0, 0>> ELSE FreeSlot],
     iStart |-> [s \in Species |-> s * MaxPart],
     iStop |-> [s \in Species |-> s * MaxPart + Len(lists[s])]]

ListsUpTo(S, k) == UNION {[1 .. m -> S] : m \in 0 .. k}

\* What the particle pusher and the migration leave on the ranks: at most
\* MaxPart particles in all, each at the centre of a true cell.
Populations(P, g) ==
    { [r \in 0 .. P - 1 |-> PopOf(l[r])] :
        l \in { m \in [0 .. P - 1 -> [Species -> ListsUpTo(CellCentres(g), MaxPart)]] :
                  ISum([r \in 0 .. P - 1 |-> Len(m[r][0]) + Len(m[r][1])], 0, P) <= MaxPart } }

\* pCut(pop, s, p, pos, vel) with p = i*nDims and the out-parameters pos and
\* vel pointing at slot `out` of pop->pos and pop->vel: the particle is
\* copied out, the last particle of the specie takes its slot, iStop[s]--.
pCut(pp, s, i, out) ==
    LET last == pp.iStop[s] - 1
        pos1 == [pp.pos EXCEPT ![out] = pp.pos[i]]
        vel1 == [pp.vel EXCEPT ![out] = pp.vel[i]]
    IN  [pp EXCEPT !.pos = [pos1 EXCEPT ![i] = pos1[last]],
                   !.vel = [vel1 EXCEPT ![i] = vel1[last]],
                   !.iStop = [pp.iStop EXCEPT ![s] = last]]

\* ------------------------------------------------- oCollectObjectCharge
\* the nodes of the Interior block and of the Surface block of object a
InteriorBlock(r, a) ==
    {lookupInterior[r][b] :
        b \in lookupInteriorOffset[r][a] .. lookupInteriorOffset[r][a + 1] - 1}
SurfaceBlock(r, a) ==
    {lookupSurface[r][b] :
        b \in lookupSurfaceOffset[r][a] .. lookupSurfaceOffset[r][a + 1] - 1}

\* for (s) { iStart, iStop; for (i = iStart; i < iStop; i++) { p; for (a)
\* for (b) if (lookupInterior[b] == p) { chargeCounter[a] += charge[s];
\* pCut(pop, s, pIndex, pop->pos, pop->vel); iStop--; } } }.  A node is in
\* the Interior block of one object at most, so one a matches at most.
\* st.cut lists the particles handed to pCut, as <<specie, pos, vel>>.
RECURSIVE CollectLoop(_, _, _, _, _)
CollectLoop(r, s, i, iStop, st) ==
    IF i >= iStop
    THEN IF s + 1 \in Species
         THEN CollectLoop(r, s + 1, st.pop.iStart[s + 1], st.pop.iStop[s + 1], st)
         ELSE st
    ELSE LET p == CellIndex(grid, st.pop.pos[i])
             hit == {a \in 0 .. nObjects[r] - 1 : p \in InteriorBlock(r, a)}
         IN  IF hit = {}
             THEN CollectLoop(r, s, i + 1, iStop, st)
             ELSE LET a == CHOOSE x \in hit : TRUE
                  IN  CollectLoop(r, s, i + 1, iStop - 1,
                          [pop |-> pCut(st.pop, s, i, 0),
                           chargeCounter |-> [st.chargeCounter EXCEPT
                                                 ![a] = RAdd(@, charge[s])],
                           cut |-> Append(st.cut, <<s, st.pop.pos[i], st.pop.vel[i]>>)])

\* invNrSurfNod[a] = 1.0/(nodCorGlob[(a+1)*(size)]);
InvNrSurfNodIndex(a, size) == (a + 1) * size

\* for (a) for (b in the Surface block of a)
\*     val[lookupSurface[b]] += chargeCounter[a]*invNrSurfNod[a];
RECURSIVE DepositUpTo(_, _, _, _, _, _)
DepositUpTo(r, node, v, cc, inv, a) ==
    IF a = 0 THEN v
    ELSE LET before == DepositUpTo(r, node, v, cc, inv, a - 1)
         IN  IF node \in SurfaceBlock(r, a - 1)
             THEN RAdd(before, RMul(cc[a - 1], inv[a - 1]))
             ELSE before

\* the particle loop of rank r: the Population and the chargeCounter it leaves
CollectOnRank(r) ==
    CollectLoop(r, 0, pop[r].iStart[0], pop[r].iStop[0],
        [pop |-> pop[r], chargeCounter |-> [a \in 0 .. nObjects[r] - 1 |-> RZero],
         cut |-> << >>])

\* chargeCounter after MPI_Allreduce(MPI_IN_PLACE, chargeCounter, nObjects, MPI_SUM)
ChargeCounterAll ==
    AllreduceSum([r \in Ranks |-> CollectOnRank(r).chargeCounter], nObjects[0])

\* (a variant of the call, without the all-reduce of the count of cut
\* particles)
CollectCollectivesCounterOnly(n) ==
    << [by |-> "oCollectObjectCharge", kind |-> "MPI_Allreduce", buf |-> "chargeCounter", count |-> n,
        type |-> "MPI_DOUBLE", op |-> "MPI_SUM"] >>

\* the collectives of a call, in the order of the calls of MPI_Allreduce:
\* the count of cut particles, then chargeCounter
CollectCollectives(n) ==
    << [by |-> "oCollectObjectCharge", kind |-> "MPI_Allreduce", buf |-> "cutNumber", count |-> 1,
        type |-> "MPI_INT", op |-> "MPI_SUM"],
       [by |-> "oCollectObjectCharge", kind |-> "MPI_Allreduce", buf |-> "chargeCounter", count |-> n,
        type |-> "MPI_DOUBLE", op |-> "MPI_SUM"] >>

oCollectObjectCharge ==
    /\ pc \in {"initCollect", "collect"}
    /\ collectives' = [r \in Ranks |-> CollectCollectives(nObjects[r])]
    /\ \E inv \in {[r \in Ranks |-> [a \in 0 .. nObjects[r] - 1 |->
                     RInv(RInt(capMatrixAllOffsets[r][InvNrSurfNodIndex(a, mpiSize)]))]]} :
       \E loc \in {[r \in Ranks |-> CollectOnRank(r)]} :
       \E cc \in {AllreduceSum([r \in Ranks |-> loc[r].chargeCounter], nObjects[0])} :
           /\ invNrSurfNod' = inv
           /\ pop' = [r \in Ranks |-> loc[r].pop]
           /\ rhoObj' = [r \in Ranks |-> [node \in Nodes(grid) |->
                 DepositUpTo(r, node, rhoObj[r][node], cc, inv[r], nObjects[r])]]
    /\ pc' = IF pc = "initCollect" THEN "initClean" ELSE "distr"
    /\ UNCHANGED <<varsDomain, capSolves, varsAlloc, varsCapLoop, varsCapStore, ub,
                   nTimeSteps, nStep, varsField>>

\* ---------------------------------------------- oApplyCapacitanceMatrix
\* the node of global surface index j of object a, on the rank r that owns j
SurfNode(r, a, j) == lookupSurface[r][lookupSurfaceOffset[r][a] + j - BeginIndex(r, a)]

\* capMatrixAll[a*totSNGlob*totSNGlob+totSNGlob*j+i] as rank r reads it
CapMatrixAllAt(r, a, j, i) ==
    capMatrixAll[r][CapMatrixAllIndex(a, TotSNGlob(r, a), TotSNGlob(r, a) * j + i)]

\* Eq. 7 on rank r: the double loop over i and the rows j of the rank, times
\* capMatrixSum[a]
LocalPhiSum(r, a) ==
    RMul(RSum([i \in 0 .. TotSNGlob(r, a) - 1 |->
                 RSum([j \in 0 .. TotSNGlob(r, a) - 1 |->
                         IF j >= BeginIndex(r, a) /\ j < EndIndex(r, a)
                         THEN RMul(CapMatrixAllAt(r, a, j, i), phi[r][SurfNode(r, a, j)])
                         ELSE RZero],
                      BeginIndex(r, a), EndIndex(r, a))],
              0, TotSNGlob(r, a)),
         capMatrixSum[r][a])

\* MPI_Allreduce(MPI_IN_PLACE, &x, 1, MPI_DOUBLE, MPI_SUM) of a scalar
AllreduceSum1(x) == RSum(x, 0, ALen(x))

\* deltaPhi of rank r before its all-reduce: zero, but on the rows it owns
LocalDeltaPhi(r, a, phiC) ==
    [j \in 0 .. TotSNGlob(r, a) - 1 |->
        IF j >= BeginIndex(r, a) /\ j < EndIndex(r, a)
        THEN RSub(phiC, phi[r][SurfNode(r, a, j)])
        ELSE RZero]

\* Eq. 5 on rank r: rhoCorr[i] += capMatrixAll[...+totSNGlob*j+i]*deltaPhi[j]
LocalRhoCorr(r, a, dPhi) ==
    [i \in 0 .. TotSNGlob(r, a) - 1 |->
        RSum([j \in 0 .. TotSNGlob(r, a) - 1 |->
                IF j >= BeginIndex(r, a) /\ j < EndIndex(r, a)
                THEN RMul(CapMatrixAllAt(r, a, j, i), dPhi[j])
                ELSE RZero],
             BeginIndex(r, a), EndIndex(r, a))]

\* the first n entries of the scratch array buf replaced by blk
Overlay(buf, blk, cnt) == [k \in DOMAIN buf |-> IF k < cnt THEN blk[k] ELSE buf[k]]

\* (a variant of the pass, deltaPhi being all-reduced before phi_c)
ApplyCollectivesSwapped(T) ==
    << [by |-> "oApplyCapacitanceMatrix", kind |-> "MPI_Allreduce", buf |-> "deltaPhi", count |-> T,
        type |-> "MPI_DOUBLE", op |-> "MPI_SUM"],
       [by |-> "oApplyCapacitanceMatrix", kind |-> "MPI_Allreduce", buf |-> "capMatrixPhiSum", count |-> 1,
        type |-> "MPI_DOUBLE", op |-> "MPI_SUM"],
       [by |-> "oApplyCapacitanceMatrix", kind |-> "MPI_Allreduce", buf |-> "rhoCorr", count |-> T,
        type |-> "MPI_DOUBLE", op |-> "MPI_SUM"] >>

\* the collectives of one pass, in the order of the calls of MPI_Allreduce
ApplyCollectives(T) ==
    << [by |-> "oApplyCapacitanceMatrix", kind |-> "MPI_Allreduce", buf |-> "capMatrixPhiSum", count |-> 1,
        type |-> "MPI_DOUBLE", op |-> "MPI_SUM"],
       [by |-> "oApplyCapacitanceMatrix", kind |-> "MPI_Allreduce", buf |-> "deltaPhi", count |-> T,
        type |-> "MPI_DOUBLE", op |-> "MPI_SUM"],
       [by |-> "oApplyCapacitanceMatrix", kind |-> "MPI_Allreduce", buf |-> "rhoCorr", count |-> T,
        type |-> "MPI_DOUBLE", op |-> "MPI_SUM"] >>

\* (a variant of the pass that inverts capMatrixSum[a] again)
ApplyFrameInverting ==
    /\ capMatrixSum' = [r \in Ranks |->
                          [capMatrixSum[r] EXCEPT ![applyA] = RInv(capMatrixSum[r][applyA])]]
    /\ UNCHANGED <<varsDomain, capSolves, varsAlloc, varsCapLoop, capMatrixAll, invCapMatrix,
                   ub, nTimeSteps, nStep, varsPop, phi>>

\* what a pass leaves alone: the Object is const but for the scratch arrays
\* deltaPhi and rhoCorr, phi is const, and rho is the only grid written
ApplyFrame ==
    UNCHANGED <<varsDomain, capSolves, varsAlloc, varsCapLoop, varsCapStore, ub,
                nTimeSteps, nStep, varsPop, phi>>

\* one pass of the loop over the objects, for object a = applyA
oApplyCapacitanceMatrix ==
    /\ pc = "apply"
    /\ collectives' = [r \in Ranks |->
                         collectives[r] \o ApplyCollectives(TotSNGlob(r, applyA))]
    /\ \E a \in {applyA} :
       \E T \in {TotSNGlob(0, a)} :
       \E phiC \in {AllreduceSum1([r \in Ranks |-> LocalPhiSum(r, a)])} :
       \E dPhi \in {AllreduceSum([r \in Ranks |-> LocalDeltaPhi(r, a, phiC)], T)} :
       \E corr \in {AllreduceSum([r \in Ranks |-> LocalRhoCorr(r, a, dPhi)], T)} :
           /\ capMatrixPhiSum' = [r \in Ranks |-> [capMatrixPhiSum[r] EXCEPT ![a] = phiC]]
           /\ deltaPhi' = [r \in Ranks |-> Overlay(deltaPhi[r], dPhi, T)]
           /\ rhoCorr' = [r \in Ranks |-> Overlay(rhoCorr[r], corr, T)]
           /\ rho' = [r \in Ranks |-> [node \in Nodes(grid) |->
                 IF node \in SurfaceBlock(r, a)
                 THEN LET j == CHOOSE k \in BeginIndex(r, a) .. EndIndex(r, a) - 1 :
                                   SurfNode(r, a, k) = node
                      IN  RAdd(rho[r][node], corr[j])
                 ELSE rho[r][node]]]
    /\ applyA' = applyA + 1
    /\ pc' = IF applyA + 1 < nObjects[0] THEN "apply" ELSE "solve2"
    /\ ApplyFrame

\* ---------------------------------------------------------------- oMode
\* the collectives of oAlloc: the all-reduce (max) of nObjects, then in
\* oGatherSurfaceNodes one all-gather of nodesThisCore for every object
AllocCollectives(n) ==
    << [by |-> "oAlloc", kind |-> "MPI_Allreduce", buf |-> "nObjects", count |-> 1,
        type |-> "MPI_INT", op |-> "MPI_MAX"] >>
    \o [a \in 1 .. n |->
           [by |-> "oGatherSurfaceNodes", kind |-> "MPI_Allgather", buf |-> "nodesThisCore",
            count |-> 1, type |-> "MPI_LONG", op |-> "none"]]

\* oAlloc, with the allocations it makes, then the first lines of
\* oComputeCapacitanceMatrix: gAlloc and gZero of rhoCap and phiCap.
oAlloc ==
    /\ pc = "oAlloc"
    /\ oAllocTables
    /\ collectives' = [r \in Ranks |-> AllocCollectives(nObjects'[r])]
    /\ capMatrixAll' = [r \in Ranks |->
          [k \in 0 .. capMatrixAllSize'[r] * capMatrixAllSize'[r] - 1 |-> Uninit]]
    /\ capMatrixSum' = [r \in Ranks |-> [a \in 0 .. nObjects'[r] - 1 |-> Uninit]]
    /\ invCapMatrix' = [r \in Ranks |-> [a \in 0 .. nObjects'[r] - 1 |-> << >>]]
    /\ deltaPhi' = [r \in Ranks |-> [k \in 0 .. capMatrixAllSize'[r] - 1 |-> Uninit]]
    /\ rhoCorr' = [r \in Ranks |-> [k \in 0 .. capMatrixAllSize'[r] - 1 |-> Uninit]]
    /\ invNrSurfNod' = [r \in Ranks |-> [a \in 0 .. nObjects'[r] - 1 |-> Uninit]]
    /\ rhoCap' = [r \in Ranks |-> gZero(grid)]
    /\ phiCap' = [r \in Ranks |-> gZero(grid)]
    /\ capA' = 0
    /\ pc' = "capObject"
    /\ UNCHANGED <<varsDomain, capSolves, capI, capJ, capInode, capMatrix, ub, nTimeSteps,
                   nStep, pop, rhoObj, rho, phi, applyA, capMatrixPhiSum>>

\* the charge densities distr and the halo exchange leave on the true nodes:
\* none, or one unit of charge on the first node of the global grid
PlasmaRho(P, g) ==
    { [r \in 0 .. P - 1 |-> [node \in Nodes(g) |->
          IF q /\ r = OwnerOf(g, <<0, 0, 0>>) /\ node = LocalOf(g, <<0, 0, 0>>)
          THEN ROne ELSE RZero]] :
        q \in BOOLEAN }

\* gAddTo(rho, rhoObj)
gAddTo(res, addend) == [node \in DOMAIN res |-> RAdd(res[node], addend[node])]

\* pPosUniformCell ... pFillGhost: the particles the run starts with
InitialConditions ==
    /\ pc = "capDone"
    /\ pop' \in Populations(mpiSize, grid)
    /\ pc' = "initCollect"
    /\ UNCHANGED <<varsDomain, collectives, capSolves, varsAlloc, varsCapLoop, varsCapStore, ub, nTimeSteps, nStep,
                   invNrSurfNod, rhoObj, varsField>>

\* gZero(rhoObj) after the first oCollectObjectCharge, the initial charge
\* density, solve(solver, rho, phi, mpiInfo), and the head of the time loop
InitialField ==
    /\ pc = "initClean"
    /\ rhoObj' = [r \in Ranks |-> gZero(grid)]
    /\ rho' \in PlasmaRho(mpiSize, grid)
    /\ phi' = Solve(mpiSize, grid, rho')
    /\ nStep' = 1
    /\ pc' = IF 1 <= nTimeSteps THEN "move" ELSE "done"
    /\ UNCHANGED <<varsDomain, collectives, capSolves, varsAlloc, varsCapLoop, varsCapStore, ub, nTimeSteps,
                   pop, invNrSurfNod, applyA, capMatrixPhiSum,
                   deltaPhi, rhoCorr>>

\* puMove, pPurgeGhost, extractEmigrants, puMigrate, pFillGhost
puMove ==
    /\ pc = "move"
    /\ pop' \in Populations(mpiSize, grid)
    /\ pc' = "collect"
    /\ UNCHANGED <<varsDomain, collectives, capSolves, varsAlloc, varsCapLoop, varsCapStore, ub, nTimeSteps, nStep,
                   invNrSurfNod, rhoObj, varsField>>

\* distr, the three gHaloOp, gAddTo(rho, rhoObj)
distr ==
    /\ pc = "distr"
    /\ \E plasma \in PlasmaRho(mpiSize, grid) :
          rho' = [r \in Ranks |-> gAddTo(plasma[r], rhoObj[r])]
    /\ pc' = "solve1"
    /\ UNCHANGED <<varsDomain, collectives, capSolves, varsAlloc, varsCapLoop, varsCapStore, ub, nTimeSteps, nStep,
                   varsPop, phi, applyA, capMatrixPhiSum, deltaPhi, rhoCorr>>

\* solve(solver, rho, phi, mpiInfo), the first of the time step
SolveBase ==
    /\ pc = "solve1"
    /\ phi' = Solve(mpiSize, grid, rho)
    /\ applyA' = 0
    /\ pc' = IF nObjects[0] > 0 THEN "apply" ELSE "solve2"
    /\ UNCHANGED <<varsDomain, collectives, capSolves, varsAlloc, varsCapLoop, varsCapStore, ub, nTimeSteps, nStep,
                   varsPop, rho, capMatrixPhiSum, deltaPhi, rhoCorr>>

\* (a variant of the end of the time step, without the second solve)
SolveCorrectedLeftOut ==
    /\ pc = "solve2"
    /\ nStep' = nStep + 1
    /\ pc' = IF nStep + 1 <= nTimeSteps THEN "move" ELSE "done"
    /\ UNCHANGED <<varsDomain, collectives, capSolves, varsAlloc, varsCapLoop, varsCapStore, ub, nTimeSteps,
                   varsPop, rho, phi, applyA, capMatrixPhiSum, deltaPhi, rhoCorr>>

\* solve(solver, rho, phi, mpiInfo) with the corrected rho, and the rest of
\* the time step
SolveCorrected ==
    /\ pc = "solve2"
    /\ phi' = Solve(mpiSize, grid, rho)
    /\ nStep' = nStep + 1
    /\ pc' = IF nStep + 1 <= nTimeSteps THEN "move" ELSE "done"
    /\ UNCHANGED <<varsDomain, collectives, capSolves, varsAlloc, varsCapLoop, varsCapStore, ub, nTimeSteps,
                   varsPop, rho, applyA, capMatrixPhiSum, deltaPhi, rhoCorr>>

vars == <<mpiSize, grid, domain, pc, nObjects, lookupInterior, lookupInteriorOffset,
          lookupSurface, lookupSurfaceOffset, capMatrixAllOffsets, capMatrixAllSize,
          capMatrixAll, capMatrixSum, capA, capI, capJ, capInode, rhoCap, phiCap,
          capMatrix, invCapMatrix, ub, nTimeSteps, nStep, pop, rhoObj, rho, phi,
          invNrSurfNod, applyA, capMatrixPhiSum, deltaPhi, rhoCorr, collectives,
          capSolves>>

\* the state in which oMode calls oAlloc: P ranks, subdomains of geometry g,
\* the Object dataset one of F, steps time steps to compute
InitWith(P, g, F, steps) ==
    /\ mpiSize = P
    /\ grid = g
    /\ domain \in {LoadDomain(P, g, f) : f \in F}
    /\ nTimeSteps = steps
    /\ pc = "oAlloc"
    /\ nObjects = << >>
    /\ lookupInterior = << >>
    /\ lookupInteriorOffset = << >>
    /\ lookupSurface = << >>
    /\ lookupSurfaceOffset = << >>
    /\ capMatrixAllOffsets = << >>
    /\ capMatrixAllSize = << >>
    /\ capMatrixAll = << >>
    /\ capMatrixSum = << >>
    /\ capA = 0
    /\ capI = 0
    /\ capJ = 0
    /\ capInode = 0
    /\ rhoCap = << >>
    /\ phiCap = << >>
    /\ capMatrix = << >>
    /\ invCapMatrix = << >>
    /\ ub = "none"
    /\ nStep = 0
    /\ pop = [r \in 0 .. P - 1 |-> PopOf([s \in Species |-> << >>])]
    /\ rhoObj = [r \in 0 .. P - 1 |-> gZero(g)]
    /\ rho = [r \in 0 .. P - 1 |-> gZero(g)]
    /\ phi = [r \in 0 .. P - 1 |-> gZero(g)]
    /\ invNrSurfNod = << >>
    /\ applyA = 0
    /\ capMatrixPhiSum = [r \in 0 .. P - 1 |-> [a \in 0 .. MaxTag - 1 |-> Uninit]]
    /\ deltaPhi = << >>
    /\ rhoCorr = << >>
    /\ collectives = [r \in 0 .. P - 1 |-> << >>]
    /\ capSolves = [r \in 0 .. P - 1 |-> << >>]

\* --------------------------------------------------------- specifications
\* Time steps computed by the runs of Spec.
MaxSteps == 1

\* the subdomains of the runs on NRanks ranks: a chain of cells along x
ChainGrid == GridOf(<<NXTrue, 1, 1>>, NGhost)

\* the Object datasets of the runs through the time loop: exact integer
\* tags, the last cell of the grid along x being plasma
StepFields ==
    {f \in Fields(NRanks, ChainGrid) :
        /\ \A c \in DOMAIN f : f[c] % 4 = 0
        /\ f[<<NRanks * NXTrue - 1, 0, 0>>] = 0}

\* oMode from oAlloc to the end of the time loop
Init == InitWith(NRanks, ChainGrid, StepFields, MaxSteps)

Next ==
    \/ oAlloc
    \/ CapObject
    \/ CapSetCharge
    \/ CapSolve
    \/ CapFill
    \/ CapInvert
    \/ CapDone
    \/ InitialConditions
    \/ oCollectObjectCharge
    \/ InitialField
    \/ puMove
    \/ distr
    \/ SolveBase
    \/ oApplyCapacitanceMatrix
    \/ SolveCorrected

Spec == Init /\ [][Next]_vars

\* oMode up to the end of oComputeCapacitanceMatrix, on every Object dataset
InitCap == InitWith(NRanks, ChainGrid, Fields(NRanks, ChainGrid), 0)

NextCap ==
    \/ oAlloc
    \/ CapObject
    \/ CapSetCharge
    \/ CapSolve
    \/ CapFill
    \/ CapInvert
    \/ CapDone

SpecCap == InitCap /\ [][NextCap]_vars


\* oMode up to the end of oComputeCapacitanceMatrix on three ranks, on the
\* Object datasets with exact integer tags
NRanksWide == 3
InitCapWide ==
    InitWith(NRanksWide, ChainGrid,
             {f \in Fields(NRanksWide, ChainGrid) : f[<<0, 0, 0>>] % 4 = 0}, 0)
SpecCapWide == InitCapWide /\ [][NextCap]_vars
\* oAlloc on one rank whose subdomain is a block of 3 x 2 x 2 cells, on the
\* Object datasets in which the last plane of cells along x is plasma
BlockGrid == GridOf(<<3, 2, 2>>, NGhost)
SurfFields == FieldsOver(1, BlockGrid, {c \in GlobalCells(1, BlockGrid) : c[1] # 2})
InitSurf == InitWith(1, BlockGrid, SurfFields, 0)
SpecSurf == InitSurf /\ [][oAlloc]_vars


\* oAlloc on one rank whose subdomain is a cube of 3 x 3 x 3 cells, on the
\* Object datasets with exact integer tags in which the cells outside the
\* lower 2 x 2 x 2 corner are plasma
CubeGrid == GridOf(<<3, 3, 3>>, NGhost)
CubeCorner == {c \in GlobalCells(1, CubeGrid) : c[1] < 2 /\ c[2] < 2 /\ c[3] < 2}
CubeFields == {f \in FieldsOver(1, CubeGrid, CubeCorner) : f[<<2, 2, 2>>] = 0}
InitCube == InitWith(1, CubeGrid, CubeFields, 0)
SpecCube == InitCube /\ [][oAlloc]_vars

\* oAlloc on one rank whose grid has 0 .. MaxGhost ghost layers on every
\* side of every axis, on every Object dataset
MaxGhost == 2
GhostGrids == {GridOf(<<NXTrue, 1, 1>>, ng) : ng \in 0 .. MaxGhost}
InitGhost == \E g \in GhostGrids : InitWith(1, g, Fields(1, g), 0)
SpecGhost == InitGhost /\ [][oAlloc]_vars
\* ------------------------------------------------------------ properties
\* the rank that owns global surface index i of object a
OwnerOfSurf(a, i) == CHOOSE r \in Ranks : BeginIndex(r, a) <= i /\ i < EndIndex(r, a)

\* C1: when the solver is invoked for column capI of object capA, the
\* assembly charge grid holds 1 at the node of global surface index capI on
\* the rank that owns it and 0 at every other node of every rank.
C1_UnitChargeAlone ==
    pc = "capSolve" =>
        \A r \in Ranks : \A node \in Nodes(grid) :
            rhoCap[r][node] =
                IF r = OwnerOfSurf(capA, capI) /\ node = SurfNode(r, capA, capI)
                THEN ROne ELSE RZero

\* C2: once every object has been treated, the entries of the inverse
\* computed for object a lie inside the allocated Capacitance Store, at the
\* positions oApplyCapacitanceMatrix reads for a, and still hold that inverse.
C2_BlocksKept ==
    pc = "capDone" =>
        \A r \in Ranks : \A a \in 0 .. nObjects[r] - 1 :
            \A l \in 0 .. TotSNGlob(r, a) * TotSNGlob(r, a) - 1 :
                /\ CapMatrixAllIndex(a, TotSNGlob(r, a), l)
                       < capMatrixAllSize[r] * capMatrixAllSize[r]
                /\ capMatrixAll[r][CapMatrixAllIndex(a, TotSNGlob(r, a), l)]
                       = invCapMatrix[r][a][l]

\* G[a][q] as rank r holds it
G(r, a, q) == capMatrixAllOffsets[r][a * (mpiSize + 1) + q]
\* the local surface count SO[a+1] - SO[a] of rank q
LocalSurfCount(q, a) == lookupSurfaceOffset[q][a + 1] - lookupSurfaceOffset[q][a]

\* C10: after oGatherSurfaceNodes every rank holds the same G; G[a][0] = 0,
\* G[a][q+1] - G[a][q] is the local surface count of rank q, G[a][P] is the
\* sum of the local counts, and the returned size is the sum of the G[a][P].
C10_GlobalSurfaceMap ==
    pc # "oAlloc" =>
        \A r \in Ranks :
            /\ capMatrixAllOffsets[r] = capMatrixAllOffsets[0]
            /\ \A a \in 0 .. nObjects[r] - 1 :
                  /\ G(r, a, 0) = 0
                  /\ \A q \in Ranks : G(r, a, q + 1) - G(r, a, q) = LocalSurfCount(q, a)
                  /\ G(r, a, mpiSize) = ISum([q \in Ranks |-> LocalSurfCount(q, a)], 0, mpiSize)
            /\ capMatrixAllSize[r] =
                  ISum([a \in 0 .. nObjects[r] - 1 |-> G(r, a, mpiSize)], 0, nObjects[r])

\* C10 witness: oAlloc has run on two objects with different global surface
\* counts, one of them with surface nodes on both ranks.
C10_Witness ==
    /\ pc = "capObject"
    /\ nObjects[0] = 2
    /\ G(0, 0, mpiSize) # G(0, 1, mpiSize)
    /\ \E a \in 0 .. 1 : \A q \in Ranks : LocalSurfCount(q, a) > 0

\* the eight nodes sampled for node i: i itself and its lower neighbours
Sampled(i) ==
    LET sp == grid.sizeProd
    IN  {i, i - sp[3], i - sp[1], i - sp[1] - sp[3], i - sp[2], i - sp[2] - sp[3],
         i - sp[2] - sp[1], i - sp[2] - sp[1] - sp[3]}
\* how many of them carry the tag of object a (tag a + 1, a counted from 0)
SampledWithTag(r, a, i) == Cardinality({k \in Sampled(i) : Tag(domain[r][k]) = a + 1})
\* the Surface Lookup block of object a on rank r, as an array
SurfBlockArr(r, a) ==
    [k \in 0 .. LocalSurfCount(r, a) - 1 |-> lookupSurface[r][lookupSurfaceOffset[r][a] + k]]

\* C3: the Surface Lookup block of object a holds, in ascending order and
\* once each, exactly the non-ghost nodes for which the number d of sampled
\* nodes tagged a satisfies 0 < d < 8, and SO[a+1]-SO[a] is their number.
C3_SurfaceCriterion ==
    pc # "oAlloc" =>
        \A r \in Ranks : \A a \in 0 .. nObjects[r] - 1 :
            LET blk == SurfBlockArr(r, a)
                crit == {i \in Nodes(grid) :
                            /\ ~isGhostNode(grid, i)
                            /\ SampledWithTag(r, a, i) > 0
                            /\ SampledWithTag(r, a, i) < 8}
            IN  /\ {blk[k] : k \in DOMAIN blk} = crit
                /\ \A k \in DOMAIN blk : k + 1 \in DOMAIN blk => blk[k] < blk[k + 1]
                /\ LocalSurfCount(r, a) = Cardinality(crit)

\* C3 witness: oAlloc has listed nodes of an object that have some but not
\* all sampled nodes tagged for it, has left out a non-ghost node with all
\* eight tagged for it, and has left out the nodes with none for the other
\* object.
C3_Witness ==
    /\ pc = "capObject"
    /\ nObjects[0] = 2
    /\ \E a \in 0 .. 1 :
          /\ \E k \in DOMAIN SurfBlockArr(0, a) : SampledWithTag(0, a, SurfBlockArr(0, a)[k]) = 4
          /\ \E i \in Nodes(grid) : ~isGhostNode(grid, i) /\ SampledWithTag(0, a, i) = 8
          /\ LocalSurfCount(0, 1 - a) = 0
          /\ \E i \in Nodes(grid) : ~isGhostNode(grid, i) /\ SampledWithTag(0, 1 - a, i) = 0

\* C4 as stated: every index in the Surface Lookup block of object a is a
\* non-ghost node whose own tag is a.
C4_OwnTag ==
    pc # "oAlloc" =>
        \A r \in Ranks : \A a \in 0 .. nObjects[r] - 1 : \A k \in DOMAIN SurfBlockArr(r, a) :
            /\ ~isGhostNode(grid, SurfBlockArr(r, a)[k])
            /\ Tag(domain[r][SurfBlockArr(r, a)[k]]) = a + 1

\* K^-1 of object a, entry [j, i], as gsl computed it
KInv(a, j, i) == invCapMatrix[0][a][TotSNGlob(0, a) * j + i]
\* phi at the node of global surface index j of object a, on the owning rank
PhiSurf(a, j) == phi[OwnerOfSurf(a, j)][SurfNode(OwnerOfSurf(a, j), a, j)]
GlobalSurf(a) == 0 .. TotSNGlob(0, a) - 1

\* C5: a pass of oApplyCapacitanceMatrix for object a adds to rho, at the
\* surface node of every global index j of a, exactly the sum over all
\* global indices j2 of a of K^-1[j2, j] * (phi_c - phi[surf(j2)]), and
\* leaves rho at the nodes outside the Surface block of a, and phi, as they
\* were.
C5_Correction ==
    (pc = "apply") =>
        /\ phi' = phi
        /\ \A r \in Ranks : \A node \in Nodes(grid) :
              REq(rho'[r][node],
                  IF node \in SurfaceBlock(r, applyA)
                  THEN LET j == CHOOSE k \in BeginIndex(r, applyA) .. EndIndex(r, applyA) - 1 :
                                    SurfNode(r, applyA, k) = node
                       IN  RAdd(rho[r][node],
                               RSum([j2 \in GlobalSurf(applyA) |->
                                        RMul(KInv(applyA, j2, j),
                                             RSub(capMatrixPhiSum'[r][applyA],
                                                  PhiSurf(applyA, j2)))],
                                    0, TotSNGlob(0, applyA)))
                  ELSE rho[r][node])
C5_ApplyAddsCorrection == [][C5_Correction]_vars

\* C6: once oApplyCapacitanceMatrix has handled object a, every rank holds
\* the same phi_c of a, and it is S_a times the sum over all global surface
\* indices i and j of K^-1[j, i] * phi[surf(j)], with S_a one over the sum
\* of the entries of K^-1 and phi read on the rank that owns j.
C6_FloatingPotential ==
    pc \in {"apply", "solve2"} =>
        \A r \in Ranks : \A a \in 0 .. applyA - 1 :
            REq(capMatrixPhiSum[r][a],
                RMul(RInv(RSum(invCapMatrix[0][a], 0, ALen(invCapMatrix[0][a]))),
                     RSum([i \in GlobalSurf(a) |->
                              RSum([j \in GlobalSurf(a) |->
                                       RMul(KInv(a, j, i), PhiSurf(a, j))],
                                   0, TotSNGlob(0, a))],
                          0, TotSNGlob(0, a))))

\* C7: when a time step is over, the potential at every surface node of
\* every object is the phi_c the step computed for that object.
C7_Equipotential ==
    (pc = "done" /\ nStep > 1) =>
        \A r \in Ranks : \A a \in 0 .. nObjects[r] - 1 : \A node \in SurfaceBlock(r, a) :
            REq(phi[r][node], capMatrixPhiSum[r][a])

\* the particles rank r holds, as slots of pp, and those of specie s among them
LiveSlots(pp, s) == pp.iStart[s] .. pp.iStop[s] - 1
InInterior(r, a, pp, i) == CellIndex(grid, pp.pos[i]) \in InteriorBlock(r, a)
\* the charge of the particles that are inside object a when the call is made
ChargeInside(a) ==
    RSum([r \in Ranks |->
             RSum([s \in Species |->
                      RMul(charge[s],
                           RInt(Cardinality({i \in LiveSlots(pop[r], s) :
                                                InInterior(r, a, pop[r], i)})))],
                  0, Cardinality(Species))],
         0, mpiSize)

\* C8: oCollectObjectCharge counts for object a the charge of every particle
\* that is in a cell of the Interior list of a when it is called, and no
\* particle it leaves in the population is in a cell of an Interior list.
C8_Collect ==
    pc \in {"initCollect", "collect"} =>
        /\ \A a \in 0 .. nObjects[0] - 1 : ChargeCounterAll[a] = ChargeInside(a)
        /\ \A r \in Ranks : \A s \in Species : \A i \in LiveSlots(pop'[r], s) :
              \A a \in 0 .. nObjects[r] - 1 : ~InInterior(r, a, pop'[r], i)
C8_CollectsEveryParticle == [][C8_Collect]_vars

\* C9: oCollectObjectCharge adds to rhoObj, at every node of the Surface
\* block of object a, the charge counted for a divided by the global surface
\* count G[a][P] of a, on top of what rhoObj held; the other nodes keep
\* their value.
C9_Deposit ==
    pc \in {"initCollect", "collect"} =>
        \A r \in Ranks : \A node \in Nodes(grid) :
            REq(rhoObj'[r][node],
                RAdd(rhoObj[r][node],
                     RSum([a \in 0 .. nObjects[r] - 1 |->
                              IF node \in SurfaceBlock(r, a)
                              THEN RMul(ChargeCounterAll[a], RInv(RInt(G(r, a, mpiSize))))
                              ELSE RZero],
                          0, nObjects[r])))
C9_UniformDeposit == [][C9_Deposit]_vars

\* the tag field rebuilt from the Interior table of rank r: the number of
\* the block that lists the node, counted from 1, and 0 for an unlisted node
TagFromInterior(r) ==
    [i \in Nodes(grid) |->
        LET at == {idx \in DOMAIN lookupInterior[r] : lookupInterior[r][idx] = i}
        IN  IF at = {} THEN 0
            ELSE BlockOf(lookupInteriorOffset[r], nObjects[r], CHOOSE idx \in at : TRUE) + 1]

\* C11: on every rank the Interior offsets start at 0 and never decrease,
\* the block of object a (tag a+1) lists exactly the local nodes, ghost
\* nodes included, whose rounded Object Map value is a+1, in strictly
\* ascending order, and the tag field rebuilt from the table is the rounded
\* input.
C11_InteriorTable ==
    pc # "oAlloc" =>
        \A r \in Ranks :
            LET IO == lookupInteriorOffset[r]
                L == lookupInterior[r]
                n == nObjects[r]
            IN  /\ IO[0] = 0
                /\ \A a \in 0 .. n - 1 : IO[a] <= IO[a + 1]
                /\ DOMAIN L = 0 .. IO[n] - 1
                /\ \A a \in 0 .. n - 1 :
                      /\ InteriorBlock(r, a) = {i \in Nodes(grid) : Tag(domain[r][i]) = a + 1}
                      /\ \A b \in IO[a] .. IO[a + 1] - 2 : L[b] < L[b + 1]
                /\ TagFromInterior(r) = [i \in Nodes(grid) |-> Tag(domain[r][i])]

\* two objects, a rank on which both blocks are filled and one of them lists
\* a ghost node, the values of the dataset being off their integer tags
C11_Witness ==
    /\ pc = "capObject"
    /\ nObjects[0] = 2
    /\ \E r \in Ranks :
          /\ InteriorBlock(r, 0) # {}
          /\ InteriorBlock(r, 1) # {}
          /\ \E i \in InteriorBlock(r, 0) : isGhostNode(grid, i)
          /\ \E i \in Nodes(grid) : domain[r][i] % 4 # 0

\* C12: no entry of the Interior lookup of any rank is a ghost node (so that
\* a particle in a cell whose lower corner is a ghost node matches no entry
\* in the loop of oCollectObjectCharge).
C12_InteriorNonGhost ==
    pc # "oAlloc" =>
        \A r \in Ranks : \A idx \in DOMAIN lookupInterior[r] :
            ~isGhostNode(grid, lookupInterior[r][idx])

\* the potential the solver returns for one unit of charge on the node of
\* global surface index i of object a and none elsewhere, read at the node
\* of global surface index j on the rank that owns j
UnitPotential(a, j, i) ==
    LET ri == OwnerOfSurf(a, i)
        rj == OwnerOfSurf(a, j)
        unit == [r \in Ranks |-> [node \in Nodes(grid) |->
                    IF r = ri /\ node = SurfNode(ri, a, i) THEN ROne ELSE RZero]]
    IN  Solve(mpiSize, grid, unit)[rj][SurfNode(rj, a, j)]

\* C13: when the columns of object capA are filled, entry (j, i) of
\* capMatrix is, on the rank that owns row j, the potential at surface node j
\* for the unit charge at surface node i, and 0 on every other rank; after
\* the all-reduce every rank holds the whole matrix of these potentials.
C13_Matrix ==
    pc = "capInvert" =>
        \E T \in {TotSNGlob(0, capA)} :
        \E M \in {[l \in 0 .. T * T - 1 |-> UnitPotential(capA, l \div T, l % T)]} :
            /\ \A r \in Ranks :
                  capMatrix[r] = [l \in 0 .. T * T - 1 |->
                                     IF OwnerOfSurf(capA, l \div T) = r THEN M[l] ELSE RZero]
            /\ \A r \in Ranks : capMatrix'[r] = M
C13_CapacitanceMatrix == [][C13_Matrix]_vars

\* phi has one and the same finite value on every surface node of object a
UniformOnSurface(a) ==
    /\ TotSNGlob(0, a) > 0
    /\ IsFinite(PhiSurf(a, 0))
    /\ \A j \in GlobalSurf(a) : PhiSurf(a, j) = PhiSurf(a, 0)
\* the sum of the entries of K^-1 of object a is a number other than zero
InverseSumNonZero(a) ==
    \E sum \in {RSum(invCapMatrix[0][a], 0, ALen(invCapMatrix[0][a]))} :
        IsFinite(sum) /\ sum # RZero

\* C14: a pass of oApplyCapacitanceMatrix for an object a on whose surface
\* phi is uniform, equal to c, and whose K^-1 has a non-zero sum of entries
\* finds phi_c = c, leaves deltaPhi and rhoCorr of a at zero on every rank
\* and does not change rho.
C14_Uniform ==
    (pc = "apply" /\ UniformOnSurface(applyA) /\ InverseSumNonZero(applyA)) =>
        /\ \A r \in Ranks :
              /\ capMatrixPhiSum'[r][applyA] = PhiSurf(applyA, 0)
              /\ \A j \in GlobalSurf(applyA) :
                    deltaPhi'[r][j] = RZero /\ rhoCorr'[r][j] = RZero
        /\ rho' = rho
C14_UniformPhiNoCorrection == [][C14_Uniform]_vars

\* the sum of a grid quantity over all nodes of all ranks
TotalCharge(f) == RSum([r \in Ranks |-> RSum(f[r], 0, NNodes(grid))], 0, mpiSize)

\* C15: a pass of oApplyCapacitanceMatrix for an object leaves the sum of
\* rho over all nodes of all ranks as it was, the corrections rhoCorr of the
\* object adding up to zero.
C15_Conserved ==
    pc = "apply" =>
        /\ REq(TotalCharge(rho'), TotalCharge(rho))
        /\ \A r \in Ranks : REq(RSum(rhoCorr'[r], 0, TotSNGlob(r, applyA)), RZero)
C15_ChargeConserved == [][C15_Conserved]_vars

\* C16: a time step of oMode runs, in this order, the particle move and
\* migration, oCollectObjectCharge, the charge deposition with rhoObj added
\* to rho, the base solve on that rho, oApplyCapacitanceMatrix (one pass for
\* every object, once, phi left alone) and a second solve on the corrected
\* rho, whose phi is the one the step ends with.
C16_Order ==
    /\ pc = "move" => pc' = "collect"
    /\ pc = "collect" => pc' = "distr"
    /\ pc = "distr" =>
          /\ pc' = "solve1"
          /\ \E plasma \in PlasmaRho(mpiSize, grid) :
                rho' = [r \in Ranks |-> gAddTo(plasma[r], rhoObj'[r])]
    /\ pc = "solve1" =>
          /\ phi' = Solve(mpiSize, grid, rho) /\ rho' = rho
          /\ applyA' = 0
          /\ pc' = IF nObjects[0] > 0 THEN "apply" ELSE "solve2"
    /\ pc = "apply" =>
          /\ applyA < nObjects[0] /\ applyA' = applyA + 1
          /\ phi' = phi
          /\ pc' = IF applyA' = nObjects[0] THEN "solve2" ELSE "apply"
    /\ pc = "solve2" =>
          /\ phi' = Solve(mpiSize, grid, rho) /\ rho' = rho
          /\ nStep' = nStep + 1
          /\ pc' \in {"move", "done"}
C16_StepOrder == [][C16_Order]_vars

\* a time step with two objects has been computed
C16_Witness == pc = "done" /\ nStep = 2 /\ nObjects[0] = 2 /\ applyA = 2

\* the places of oMode from the start of the particle initialisation on
AfterAssembly ==
    {"capDone", "initCollect", "initClean", "move", "collect", "distr", "solve1",
     "apply", "solve2", "done"}

\* C17: when an object a has no surface node on any rank (T_a < 1) the run
\* ends during the capacitance assembly: the loop over the objects never
\* gets past a, no inverse and no scalar S_a is stored for a, and the
\* particle initialisation and the time loop are never reached.
C17_EmptySurfaceIsFatal ==
    pc # "oAlloc" =>
        \A a \in 0 .. nObjects[0] - 1 :
            TotSNGlob(0, a) < 1 =>
                /\ pc \notin AfterAssembly
                /\ capA <= a
                /\ \A r \in Ranks :
                      invCapMatrix[r][a] = << >> /\ capMatrixSum[r][a] = Uninit

\* tag 2 is on the grid and tag 1 is not: the assembly has stopped at object
\* 0, which has no surface node, before it came to object 1, which has some
C17_Witness ==
    /\ pc = "aborted"
    /\ nObjects[0] = 2
    /\ capA = 0
    /\ TotSNGlob(0, 0) = 0
    /\ TotSNGlob(0, 1) > 0
    /\ \A r \in Ranks : InteriorBlock(r, 0) = {}
\* C18: when no node of any rank carries a positive tag, oAlloc does not
\* return: the run never gets past the call.
C18_NoObjectIsFatal ==
    (\A r \in Ranks : \A i \in Nodes(grid) : Tag(domain[r][i]) <= 0) => pc = "oAlloc"

\* the collectives a rank has issued in oApplyCapacitanceMatrix, and in
\* oCollectObjectCharge, this time step
IsByApply(e) == e.by = "oApplyCapacitanceMatrix"
IsByCollect(e) == e.by = "oCollectObjectCharge"
IssuedByApply(r) == SelectSeq(collectives[r], IsByApply)

\* C19: once oApplyCapacitanceMatrix has handled the objects below applyA,
\* every rank has issued in it three all-reduces (sum) for each of them and
\* nothing else, object after object: one of the scalar phi_c, one of the
\* T_a values of deltaPhi, one of the T_a values of rhoCorr, in this order.
C19_ThreeAllreduces ==
    pc \in {"apply", "solve2"} =>
        \A r \in Ranks :
            \E log \in {IssuedByApply(r)} :
                /\ Len(log) = 3 * applyA
                /\ \A a \in 0 .. applyA - 1 :
                      /\ log[3 * a + 1].buf = "capMatrixPhiSum" /\ log[3 * a + 1].count = 1
                      /\ log[3 * a + 2].buf = "deltaPhi"
                      /\ log[3 * a + 2].count = TotSNGlob(r, a)
                      /\ log[3 * a + 3].buf = "rhoCorr"
                      /\ log[3 * a + 3].count = TotSNGlob(r, a)
                /\ \A k \in 1 .. Len(log) : log[k].op = "MPI_SUM"

\* the call has returned after two objects with different surface counts
C19_Witness ==
    /\ pc = "solve2"
    /\ nObjects[0] = 2
    /\ applyA = 2
    /\ TotSNGlob(0, 0) # TotSNGlob(0, 1)
    /\ Len(IssuedByApply(1)) = 6

\* C20: a call of oCollectObjectCharge issues one collective, an
\* all-reduce, on every rank.
C20_Collect ==
    pc \in {"initCollect", "collect"} =>
        \A r \in Ranks : Len(SelectSeq(collectives'[r], IsByCollect)) = 1
C20_OneAllreduce == [][C20_Collect]_vars

\* C20 (amended): when a call of oCollectObjectCharge has returned, every
\* rank has issued in it two all-reduces (sum) and nothing else: first the
\* count of the particles it cut, one int, then chargeCounter, one double
\* for every object.
C20_TwoAllreduces ==
    pc \in {"initClean", "distr"} =>
        \A r \in Ranks :
            \E log \in {SelectSeq(collectives[r], IsByCollect)} :
                /\ Len(log) = 2
                /\ log[1].buf = "cutNumber" /\ log[1].count = 1
                /\ log[1].type = "MPI_INT" /\ log[1].op = "MPI_SUM"
                /\ log[2].buf = "chargeCounter" /\ log[2].count = nObjects[r]
                /\ log[2].type = "MPI_DOUBLE" /\ log[2].op = "MPI_SUM"

\* the call of a time step has returned, with two objects on the grid and
\* collected charge deposited on rank 1
C20_Witness ==
    /\ pc = "distr"
    /\ nObjects[0] = 2
    /\ Len(collectives[1]) = 2
    /\ \E node \in Nodes(grid) : IsFinite(rhoObj[1][node]) /\ rhoObj[1][node] # RZero
\* the single-rank reference of a run: one subdomain that covers the whole
\* grid, loaded with the same dataset, its ghost layers set by the same halo
\* exchange
RefGrid ==
    GridOf(<<mpiSize * grid.trueSize[1], grid.trueSize[2], grid.trueSize[3]>>, NGhost)
GlobalField ==
    [c \in GlobalCells(mpiSize, grid) |-> domain[OwnerOf(grid, c)][LocalOf(grid, c)]]
RefDomain == LoadDomain(1, RefGrid, GlobalField)[0]
RefNObjects == LocalNObjects(RefGrid, RefDomain)
\* the Surface lookup of the reference
RefTables == oFindObjectSurfaceNodes(RefGrid, RefDomain, RefNObjects)
\* the surface list of object a in the reference tables ref, in global
\* coordinates
RefSurface(ref, a) ==
    {GlobalCell(1, RefGrid, 0, ref.lookupSurface[k]) :
        k \in ref.lookupSurfaceOffset[a] .. ref.lookupSurfaceOffset[a + 1] - 1}
\* the surface list of object a on rank r, in global coordinates
SurfaceGlobal(r, a) == {GlobalCell(mpiSize, grid, r, node) : node \in SurfaceBlock(r, a)}

\* C21: after oAlloc on several ranks, the local surface lists of object a,
\* mapped to global coordinates, are pairwise disjoint, hold every node of
\* the surface list of a in the single-rank reference once and nothing else,
\* each rank lists a node once, and T_a = G[a][P] is the size of the
\* reference list.
C21_SplitMatchesReference ==
    pc # "oAlloc" =>
        /\ nObjects[0] = RefNObjects
        /\ \E tables \in {RefTables} : \A a \in 0 .. nObjects[0] - 1 :
              \E ref \in {RefSurface(tables, a)} :
                  /\ ref \subseteq UNION {SurfaceGlobal(r, a) : r \in Ranks}
                  /\ UNION {SurfaceGlobal(r, a) : r \in Ranks} \subseteq ref
                  /\ \A c \in ref : Cardinality({r \in Ranks : c \in SurfaceGlobal(r, a)}) = 1
                  /\ \A r \in Ranks :
                        /\ Cardinality(SurfaceGlobal(r, a)) = LocalSurfCount(r, a)
                        /\ TotSNGlob(r, a) = Cardinality(ref)

\* two ranks, both with surface nodes of an object, one of them a node of
\* rank 1 that is on the surface only through the tag its lower ghost
\* neighbour copied from rank 0
C21_Witness ==
    /\ pc = "capObject"
    /\ mpiSize = 2
    /\ \E a \in 0 .. nObjects[0] - 1 :
          /\ LocalSurfCount(0, a) > 0
          /\ \E node \in SurfaceBlock(1, a) :
                /\ ~HasTag(domain[1][node], a)
                /\ isGhostNode(grid, node - grid.sizeProd[1])
                /\ HasTag(domain[1][node - grid.sizeProd[1]], a)

\* the non-ghost nodes of rank r that carry the tag of object a, and the
\* non-ghost nodes that carry any tag
TaggedNodes(r, a) ==
    {i \in Nodes(grid) : ~isGhostNode(grid, i) /\ Tag(domain[r][i]) = a + 1}
ObjectNodes(r) == {i \in Nodes(grid) : ~isGhostNode(grid, i) /\ Tag(domain[r][i]) > 0}

\* C22: on one rank, when one non-ghost node carries the tag of object a
\* and every other non-ghost node is plasma, the Surface block of a is that
\* one node and T_a = 1.
C22_SingleNode ==
    (pc # "oAlloc" /\ mpiSize = 1) =>
        \A a \in 0 .. nObjects[0] - 1 :
            \E tagged \in {TaggedNodes(0, a)} :
                (Cardinality(tagged) = 1 /\ ObjectNodes(0) = tagged) =>
                    /\ SurfaceBlock(0, a) = tagged
                    /\ LocalSurfCount(0, a) = 1
                    /\ TotSNGlob(0, a) = 1

\* the nodes of the solid cube of 2 x 2 x 2 nodes whose lowest corner is n
CubeAt(n) ==
    LET sp == grid.sizeProd
    IN  {n + x * sp[1] + y * sp[2] + z * sp[3] : x \in 0 .. 1, y \in 0 .. 1, z \in 0 .. 1}

\* C23: when the non-ghost nodes that carry the tag of object a are the
\* eight nodes of a solid 2 x 2 x 2 cube, the Surface block of a has eight
\* entries, the nodes of the cube.
C23_Cube ==
    (pc # "oAlloc" /\ mpiSize = 1) =>
        \A a \in 0 .. nObjects[0] - 1 :
            \E tagged \in {TaggedNodes(0, a)} :
                (\E n \in tagged : tagged = CubeAt(n)) =>
                    /\ LocalSurfCount(0, a) = 8
                    /\ SurfaceBlock(0, a) = tagged

\* the calls of solve that the column loops of the objects below n make on
\* rank r: one for every global surface index of every object, object after
\* object and index after index
RECURSIVE ExpectedSolves(_, _)
ExpectedSolves(r, n) ==
    IF n = 0 THEN << >>
    ELSE ExpectedSolves(r, n - 1) \o [k \in 1 .. TotSNGlob(r, n - 1) |-> <<n - 1, k - 1>>]

\* C24: oComputeCapacitanceMatrix runs once, after oAlloc and before the
\* particle initialisation, the time loop and every pass of
\* oApplyCapacitanceMatrix, and in it every rank calls the solver once for
\* every global surface index of every object, in increasing object and
\* index order: sum of T_a calls, and none of them later.
C24_AssemblyOnce ==
    \A r \in Ranks :
        /\ pc = "oAlloc" => capSolves[r] = << >>
        /\ pc = "capObject" => capSolves[r] = ExpectedSolves(r, capA)
        /\ pc = "capInvert" => capSolves[r] = ExpectedSolves(r, capA + 1)
        /\ pc \in AfterAssembly =>
              /\ capSolves[r] = ExpectedSolves(r, nObjects[r])
              /\ Len(capSolves[r]) =
                    ISum([a \in 0 .. nObjects[r] - 1 |-> TotSNGlob(r, a)], 0, nObjects[r])
        /\ (nStep > 0 \/ IssuedByApply(r) # << >>) => pc \in AfterAssembly

\* a time step has been computed for two objects with different surface
\* counts, after an assembly of T_0 + T_1 solves
C24_Witness ==
    /\ pc = "done"
    /\ nStep = 2
    /\ nObjects[0] = 2
    /\ TotSNGlob(0, 0) > 1
    /\ TotSNGlob(0, 1) > 0
    /\ TotSNGlob(0, 0) # TotSNGlob(0, 1)
    /\ Len(capSolves[1]) = TotSNGlob(0, 0) + TotSNGlob(0, 1)
    /\ Len(IssuedByApply(1)) = 6

\* C25: a call of oCollectObjectCharge and a pass of oApplyCapacitanceMatrix
\* leave the Object Map, the Interior and Surface lookups with their
\* offsets, the Global Surface Map, the stored inverses and the scalars S_a
\* as they were.
C25_Frame ==
    pc \in {"initCollect", "collect", "apply"} =>
        UNCHANGED <<domain, lookupInterior, lookupInteriorOffset, lookupSurface,
                    lookupSurfaceOffset, capMatrixAllOffsets, capMatrixAll, capMatrixSum,
                    invCapMatrix>>
C25_StoreReadOnly == [][C25_Frame]_vars

\* both routines have acted in a time step: charge has been collected and
\* deposited, and the passes for two objects have corrected rho
C25_Witness ==
    /\ pc = "solve2"
    /\ nStep = 1
    /\ nObjects[0] = 2
    /\ applyA = 2
    /\ \E r \in Ranks : \E node \in Nodes(grid) :
          IsFinite(rhoObj[r][node]) /\ rhoObj[r][node] # RZero
    /\ \E r \in Ranks : \E k \in DOMAIN rhoCorr[r] :
          IsFinite(rhoCorr[r][k]) /\ rhoCorr[r][k] # RZero /\ rhoCorr[r][k] # Uninit

\* C26: when the solver is called for column capI of object capA, the cursor
\* stands on the rank capJ that owns global surface index capI and on the
\* local position capInode = capI - G[capA][capJ] in its block, and the unit
\* charge is on the node that rows and columns capI of the matrix and
\* oApplyCapacitanceMatrix stand for.
C26_CursorOnIndex ==
    pc = "capSolve" =>
        /\ capJ \in Ranks
        /\ G(0, capA, capJ) <= capI
        /\ capI < G(0, capA, capJ + 1)
        /\ capInode = capI - G(0, capA, capJ)
        /\ capI \in GlobalSurf(capA)
        /\ rhoCap[capJ][SurfNode(capJ, capA, capI)] = ROne
        /\ ChargeNode(capJ, capA, capInode) = SurfNode(capJ, capA, capI)

\* the ranks that hold surface nodes of object a
RanksWithSurface(a) == {r \in Ranks : LocalSurfCount(r, a) > 0}

\* the charge is on the second node of the last rank, for an object of which
\* the first and the middle rank hold no surface node
C26_Witness ==
    /\ pc = "capSolve"
    /\ mpiSize = 3
    /\ RanksWithSurface(capA) = {2}
    /\ capJ = 2
    /\ capInode = 1
\* the node has a coordinate in the ghost band of its axis: one of the first
\* nGhostLayers[d] or of the last nGhostLayers[rank + d] layers
InGhostBand(g, node) ==
    \E d \in 1 .. g.rank - 1 :
        \/ Coord(g, node, d) < g.nGhostLayers[d]
        \/ Coord(g, node, d) >= g.size[d] - g.nGhostLayers[g.rank + d]

\* C27: on the grid oAlloc has classified, isGhostNode is true of a linear
\* index if and only if one of its three coordinates lies in the ghost band
\* that nGhostLayers gives for the lower or the upper side of that axis.
C27_GhostBand ==
    pc # "oAlloc" =>
        \A node \in Nodes(grid) : isGhostNode(grid, node) <=> InGhostBand(grid, node)

\* C27 for the grids with one ghost layer on every side
C27_OneLayer ==
    (\A d \in 1 .. grid.rank - 1 :
        grid.nGhostLayers[d] = 1 /\ grid.nGhostLayers[grid.rank + d] = 1) => C27_GhostBand

\* C28: at every point of a run all ranks have issued the same sequence of
\* collectives (same routine, kind, buffer, element count, type and
\* operation) in oAlloc with oGatherSurfaceNodes, oComputeCapacitanceMatrix,
\* oCollectObjectCharge and oApplyCapacitanceMatrix, and have made the same
\* calls of the solver in the assembly: no rank has entered a collective
\* that another rank does not enter.
C28_SameCollectives ==
    \A r \in Ranks :
        /\ collectives[r] = collectives[0]
        /\ capSolves[r] = capSolves[0]

\* (as long as no process has died the logs of the ranks agree)
C28_SameWhileAlive == pc # "crashed" => C28_SameCollectives

\* C29: in oComputeCapacitanceMatrix the cursor j is always a rank, 0..P-1,
\* so that the entries nodCorGlob[a*(size+1)+j] and [a*(size+1)+j+1] the
\* loops read lie in the row of object a, and no read of nodCorGlob is made
\* past the end of the array, the cursor loop after the last surface node of
\* an object included.
C29_CursorInRow ==
    /\ capJ \in Ranks
    /\ ub # "nodCorGlob read past its end"

\* (while columns are left to fill, the cursor is in the row of the object)
C29_InRowBeforeLast ==
    (pc \in {"capSet", "capSolve", "capFill"} /\ ub = "none") => capJ \in Ranks

\* the particles of specie s in the Population pp, as a bag of <<pos, vel>>
BagOfSpecie(pp, s) ==
    LET slots == pp.iStart[s] .. pp.iStop[s] - 1
        parts == {<<pp.pos[i], pp.vel[i]>> : i \in slots}
    IN  [e \in parts |-> Cardinality({i \in slots : <<pp.pos[i], pp.vel[i]>> = e})]

\* the particles of specie s in the list of cut particles, as a bag
BagOfCut(cut, s) ==
    LET idx == {k \in 1 .. Len(cut) : cut[k][1] = s}
        parts == {<<cut[k][2], cut[k][3]>> : k \in idx}
    IN  [e \in parts |-> Cardinality({k \in idx : <<cut[k][2], cut[k][3]>> = e})]

\* the Population of rank r after the step is the one before it without
\* the particles the call has cut
C30_Frame ==
    pc \in {"initCollect", "collect"} =>
        \A r \in Ranks : \A s \in Species :
            BagOfSpecie(pop'[r], s)
                = BagOfSpecie(pop[r], s) (-) BagOfCut(CollectOnRank(r).cut, s)

\* C30: oCollectObjectCharge changes the Population only by removing the
\* particles it attributes to an object: for every specie the bag of
\* <<pos, vel>> of the particles after the call is the bag before the call
\* minus the cut particles (so slot 0 of pos and vel is not overwritten by
\* the out-parameters of pCut).
C30_OnlyRemoves == [][C30_Frame]_vars


=============================================================================
